---- MODULE Spec2Model ----
(***************************************************************************)
(* svggloo: merge the rows of a CSV file into an SVG template, one output  *)
(* file per row, and optionally convert the files to PDF with an external  *)
(* program.  Model of src/src/template.rs.                                 *)
(*                                                                         *)
(* Text (String, PathBuf) is a sequence of one-character strings.  An      *)
(* Option<T> is a sequence of length 0 (None) or 1 (Some).                 *)
(***************************************************************************)
EXTENDS Integers, Sequences, FiniteSets, TLC

\* ------------------------------------------------------------------ bounds
\* Largest number of data rows of the companion CSV file.
MaxRows == 2
\* Number of runs of render over the same inputs and output directory.
MaxRuns == 2

\* ------------------------------------------------------------------- text
None == << >>
Some(x) == << x >>
IsSome(o) == Len(o) = 1
Unwrap(o) == o[1]

Upper == << "A", "B", "C", "D", "E", "F", "G", "H", "I", "J", "K", "L", "M",
            "N", "O", "P", "Q", "R", "S", "T", "U", "V", "W", "X", "Y", "Z" >>
Lower == << "a", "b", "c", "d", "e", "f", "g", "h", "i", "j", "k", "l", "m",
            "n", "o", "p", "q", "r", "s", "t", "u", "v", "w", "x", "y", "z" >>

\* char::to_lowercase on the ASCII letters.
LowerChar(c) ==
  IF \E i \in 1..Len(Upper) : Upper[i] = c
  THEN Lower[CHOOSE i \in 1..Len(Upper) : Upper[i] = c]
  ELSE c

\* str::to_lowercase
to_lowercase(s) == [i \in 1..Len(s) |-> LowerChar(s[i])]

\* str::replace(' ', "_"): only U+0020 is replaced.
replace_space(s) == [i \in 1..Len(s) |-> IF s[i] = " " THEN "_" ELSE s[i]]

\* [String]::join(sep)
RECURSIVE join(_, _)
join(v, sep) ==
  IF Len(v) = 0 THEN << >>
  ELSE IF Len(v) = 1 THEN v[1]
  ELSE v[1] \o sep \o join(Tail(v), sep)

\* Concatenation of a sequence of texts.
RECURSIVE concat(_)
concat(v) == IF Len(v) = 0 THEN << >> ELSE v[1] \o concat(Tail(v))

\* Index of the last occurrence of c in s, 0 when there is none.
LastIndexOf(s, c) ==
  IF \E i \in 1..Len(s) : s[i] = c
  THEN CHOOSE i \in 1..Len(s) : s[i] = c /\ \A j \in (i+1)..Len(s) : s[j] # c
  ELSE 0

\* Path::join: an absolute argument replaces the base path.
path_join(dir, item) ==
  IF Len(item) > 0 /\ item[1] = "/" THEN item
  ELSE IF Len(dir) > 0 /\ dir[Len(dir)] = "/" THEN dir \o item
  ELSE dir \o << "/" >> \o item

\* Path::with_extension.  The file name is what follows the last '/'.  A file
\* name without a dot, or whose only dot is its first character, has no
\* extension: the new extension is appended to it.  Otherwise what follows the
\* last dot is replaced.
with_extension(path, ext) ==
  LET slash == LastIndexOf(path, "/")
      file  == SubSeq(path, slash + 1, Len(path))
      dot   == LastIndexOf(file, ".")
      stem  == IF dot <= 1 THEN file ELSE SubSeq(file, 1, dot - 1)
  IN  IF Len(file) = 0 THEN path
      ELSE SubSeq(path, 1, slash) \o stem \o << "." >> \o ext

\* ----------------------------------------------------------------- inputs
\* Text constants of the inputs.
CA == << "C", "A" >>
LosAngeles == << "L", "o", "s", " ", "A", "n", "g", "e", "l", "e", "s" >>
SlashX == << "/", "x" >>
NTabY == << "N", "\t", "Y" >>
ThisIs == << "T", "h", "i", "s", " ", "i", "s", " " >>
Dot == << "." >>
Dash == << "-" >>
SepX == << "X" >>
DotSvg == << ".", "s", "v", "g" >>
Pdf == << "p", "d", "f" >>
OutDir == << "o", "u", "t", "p", "u", "t" >>
BrochureSvg == << "b", ".", "s", "v", "g" >>
CardHtml == << "c", ".", "h", "t", "m", "l" >>

\* The header row of the CSV file: the field names of every record.
Header == << "state", "city" >>

\* Data rows a CSV file may hold.  The last one has a field too few: the
\* reader rejects it.
RowPool ==
  { << CA, LosAngeles >>,
    << SlashX, NTabY >>,
    << CA >> }

\* The CSV files: up to MaxRows rows.
DataFiles == UNION { [1..n -> RowPool] : n \in 0..MaxRows }

\* Templates: a path and a source, the source a sequence of literal texts and
\* {{field}} references.
Lit(t) == [kind |-> "lit", text |-> t, name |-> ""]
Ref(f) == [kind |-> "ref", text |-> << >>, name |-> f]
Templates ==
  { [path |-> BrochureSvg, source |-> << Lit(ThisIs), Ref("city"), Lit(Dot) >>],
    [path |-> CardHtml,    source |-> << Ref("zip"), Ref("state"), Lit(Dot) >>] }

\* The values of the field_based_name argument.
FieldLists ==
  { None,
    Some(<< >>),
    Some(<< "state", "city" >>),
    Some(<< "city" >>),
    Some(<< "city", "zip" >>) }

Exporters == { "Inkscape", "CairoSVG", "SVG2PDF" }

\* ------------------------------------------------------------------ state
VARIABLES
  svg_template,     \* the template: [path, source]
  output_dir,       \* the output directory
  exporter,         \* Option<Exporter>
  field_based_name, \* Option<Vec<String>>
  separator,        \* Option<&str>
  undefined,        \* how the template engine treats an undefined variable
  rows,             \* the data rows of the companion CSV file
  pc,               \* "start", "loop", "export", "done", "err", "panic"
  err,              \* the error render returned, "none" when none
  run,              \* number of the current run of render
  idx,              \* number of the record the loop is at, 0 before the loop
  files,            \* Vec<PathBuf> of the files written by this run
  names,            \* item_name of each record of this run, in loop order
  disk,             \* the files on disk: a set of [path, content]
  prevDisk,         \* the disk when the previous run returned
  exportCalls,      \* calls of an export_with_* function in this run
  invocations,      \* Command::output calls of this run: [program, args]
  exitFailure       \* a command of this run exited with a non-zero status

inputs == << svg_template, output_dir, exporter, field_based_name, separator,
             undefined, rows >>
vars == << svg_template, output_dir, exporter, field_based_name, separator,
           undefined, rows, pc, err, run, idx, files, names, disk, prevDisk,
           exportCalls, invocations, exitFailure >>

\* A CSV row deserialized into a Record (HashMap<String, String>).
Record(row) ==
  [f \in { Header[i] : i \in 1..Len(Header) } |->
     row[CHOOSE i \in 1..Len(Header) : Header[i] = f]]

\* csv_reader.deserialize(): a row whose length differs from the header's is
\* an error.
RowIsValid(row) == Len(row) = Len(Header)

\* let sep = separator.unwrap_or("-")
sep == IF IsSome(separator) THEN Unwrap(separator) ELSE Dash

\* record[f] panics when the record has no field f.
NamingPanics(record) ==
  /\ IsSome(field_based_name)
  /\ \E i \in 1..Len(Unwrap(field_based_name)) :
       Unwrap(field_based_name)[i] \notin DOMAIN record

\* The item_name values the naming step can produce for a record.  With field
\* names: each value with ' ' replaced by '_', joined by sep, the whole
\* lowercased.  Without: the lowercased value that the HashMap's iterator
\* yields first, which may be any field's.
ItemNames(record) ==
  IF IsSome(field_based_name)
  THEN LET fields == Unwrap(field_based_name)
           v == [i \in 1..Len(fields) |-> replace_space(record[fields[i]])]
       IN  { to_lowercase(join(v, sep)) }
  ELSE { to_lowercase(record[f]) : f \in DOMAIN record }

\* Text after the last dot of a path.
extension_of(path) == SubSeq(path, LastIndexOf(path, ".") + 1, Len(path))

\* output_file as it would be if the file took the template's extension.
output_file_template_ext(item_name) ==
  path_join(output_dir, item_name \o Dot \o extension_of(svg_template.path))

\* item.push_str(".svg"); output_dir.join(&item)
output_file(item_name) == path_join(output_dir, item_name \o DotSvg)

\* tmpl.render(&record): the references replaced by the record's values.  A
\* reference to a name the record lacks is an error when the engine is strict
\* and renders as nothing when it is lenient.
tmpl_render(record) ==
  LET src == svg_template.source
      absent == \E i \in 1..Len(src) :
                  src[i].kind = "ref" /\ src[i].name \notin DOMAIN record
      piece(s) == IF s.kind = "lit" THEN s.text
                  ELSE IF s.name \in DOMAIN record THEN record[s.name]
                  ELSE << >>
  IN  IF absent /\ undefined = "Strict"
      THEN [ok |-> FALSE, text |-> << >>]
      ELSE [ok |-> TRUE, text |-> concat([i \in 1..Len(src) |-> piece(src[i])])]

\* The ? operator replaced by a default: the error is dropped.
propagates_never(result) == FALSE

\* The ? operator on a Result: the function returns the error.
propagates(result) == ~result.ok

\* fs::write: creates the file or replaces its content.
fs_write(d, path, content) ==
  { f \in d : f.path # path } \cup { [path |-> path, content |-> content] }

Init ==
  /\ svg_template \in Templates
  /\ output_dir = OutDir
  /\ exporter \in { None } \cup { Some(e) : e \in Exporters }
  /\ field_based_name \in FieldLists
  /\ separator \in { None, Some(SepX) }
  /\ undefined \in { "Lenient", "Strict" }
  /\ rows \in DataFiles
  /\ pc = "start"
  /\ err = "none"
  /\ run = 1
  /\ idx = 0
  /\ files = << >>
  /\ names = << >>
  /\ disk = { }
  /\ prevDisk = { }
  /\ exportCalls = << >>
  /\ invocations = << >>
  /\ exitFailure = FALSE

\* ------------------------------------------------------------------ render
\* Lines 69-88: the output directory, the template and the CSV reader.
SetupOk ==
  /\ pc = "start"
  /\ pc' = "loop"
  /\ idx' = 1
  /\ UNCHANGED << inputs, err, run, files, names, disk, prevDisk,
                  exportCalls, invocations, exitFailure >>

\* create_dir_all, read_to_string or Reader::from_path fails.
SetupFail ==
  /\ pc = "start"
  /\ pc' = "err"
  /\ err' = "IOError"
  /\ UNCHANGED << inputs, run, idx, files, names, disk, prevDisk,
                  exportCalls, invocations, exitFailure >>

AtRecord == pc = "loop" /\ idx <= Len(rows)

\* let record: Record = result?;
RecordInvalid ==
  /\ AtRecord
  /\ ~RowIsValid(rows[idx])
  /\ pc' = "err"
  /\ err' = "DataFormatError"
  /\ UNCHANGED << inputs, run, idx, files, names, disk, prevDisk,
                  exportCalls, invocations, exitFailure >>

\* record[f] on a field the record lacks.
NamePanic ==
  /\ AtRecord
  /\ RowIsValid(rows[idx])
  /\ NamingPanics(Record(rows[idx]))
  /\ pc' = "panic"
  /\ UNCHANGED << inputs, err, run, idx, files, names, disk, prevDisk,
                  exportCalls, invocations, exitFailure >>

\* tmpl.render(&record)? returns the engine's error.
RenderFail ==
  /\ AtRecord
  /\ RowIsValid(rows[idx])
  /\ ~NamingPanics(Record(rows[idx]))
  /\ propagates(tmpl_render(Record(rows[idx])))
  /\ \E n \in ItemNames(Record(rows[idx])) : names' = Append(names, n)
  /\ pc' = "err"
  /\ err' = "TemplateRenderError"
  /\ UNCHANGED << inputs, run, idx, files, disk, prevDisk, exportCalls,
                  invocations, exitFailure >>

\* fs::write(&output_file, rendered)? fails: the file could not be opened,
\* or it was created or truncated and the text could not be written.
WriteFail ==
  /\ AtRecord
  /\ RowIsValid(rows[idx])
  /\ ~NamingPanics(Record(rows[idx]))
  /\ ~propagates(tmpl_render(Record(rows[idx])))
  /\ \E n \in ItemNames(Record(rows[idx])) :
       /\ names' = Append(names, n)
       /\ disk' \in { disk, fs_write(disk, output_file(n), << >>) }
  /\ pc' = "err"
  /\ err' = "IOError"
  /\ UNCHANGED << inputs, run, idx, files, prevDisk, exportCalls,
                  invocations, exitFailure >>

\* One iteration of the loop that names, renders and writes the record.
WriteRecord ==
  /\ AtRecord
  /\ RowIsValid(rows[idx])
  /\ ~NamingPanics(Record(rows[idx]))
  /\ ~propagates(tmpl_render(Record(rows[idx])))
  /\ \E n \in ItemNames(Record(rows[idx])) :
       /\ names' = Append(names, n)
       /\ disk' = fs_write(disk, output_file(n), tmpl_render(Record(rows[idx])).text)
       /\ files' = Append(files, output_file(n))
  /\ idx' = idx + 1
  /\ UNCHANGED << inputs, pc, err, run, prevDisk, exportCalls, invocations, exitFailure >>

\* The loop left one record early.
LoopFinishedEarly == idx >= Len(rows)

\* The iterator is exhausted.
LoopFinished == idx > Len(rows)

\* Lines 116-123 without an exporter: Ok(()).
ReturnNoExport ==
  /\ pc = "loop"
  /\ LoopFinished
  /\ ~IsSome(exporter)
  /\ pc' = "done"
  /\ UNCHANGED << inputs, err, run, idx, files, names, disk, prevDisk,
                  exportCalls, invocations, exitFailure >>

\* Lines 116-121: the exporter's function is called with the files.
CallExport ==
  /\ pc = "loop"
  /\ LoopFinished
  /\ IsSome(exporter)
  /\ exportCalls' = Append(exportCalls, [exporter |-> Unwrap(exporter), srcs |-> files])
  /\ pc' = "export"
  /\ UNCHANGED << inputs, err, run, idx, files, names, disk, prevDisk,
                  invocations, exitFailure >>

\* ------------------------------------------------------------------ export
\* Command-line words.
ExportAreaDrawing == << "--export-area-drawing" >>
BatchProcess == << "--batch-process" >>
ExportTypePdf == << "--export-type=pdf" >>
FlagF == << "-f" >>
FlagO == << "-o" >>

\* What Command::new(program).args(args).output() can come to: the program
\* ran and exited with status 0, ran and exited with another status, or could
\* not be started.
Outcomes == { "exit0", "nonzero", "notfound" }

\* The srcs argument of the export function being executed.
srcs == exportCalls[Len(exportCalls)].srcs
Exporting(e) == pc = "export" /\ exportCalls[Len(exportCalls)].exporter = e

\* export_with: runs the command; .expect() panics when output() is an Err,
\* that is when the program could not be started.  The exit status is not
\* looked at.
export_with(program, args) ==
  \E o \in Outcomes :
    /\ invocations' = Append(invocations, [program |-> program, args |-> args])
    /\ exitFailure' = (exitFailure \/ o = "nonzero")
    /\ pc' = IF o = "notfound" THEN "panic" ELSE pc

\* get_in_out_file without the change of extension.
get_in_out_file_same(src) == [in_svg |-> src, out_pdf |-> src]

\* get_in_out_file: the path and the path with the extension pdf.
get_in_out_file(src) == [in_svg |-> src, out_pdf |-> with_extension(src, Pdf)]

\* The arguments export_with_inkscape builds.
inkscape_args(ss) == << ExportAreaDrawing, BatchProcess, ExportTypePdf >> \o ss

\* The arguments export_with_cairosvg builds for one file.
cairosvg_args(src) ==
  << FlagF, Pdf, FlagO, get_in_out_file(src).out_pdf, get_in_out_file(src).in_svg >>

\* The arguments export_with_svg2pdf builds for one file.
svg2pdf_args(src) == << get_in_out_file(src).in_svg >>

\* export_with_inkscape: one command for all the files.
ExportInkscape ==
  /\ Exporting("Inkscape")
  /\ Len(invocations) = 0
  /\ export_with("inkscape", inkscape_args(srcs))
  /\ UNCHANGED << inputs, err, run, idx, files, names, disk, prevDisk, exportCalls >>

\* export_with_cairosvg: one iteration of its loop.
ExportCairoSVG ==
  /\ Exporting("CairoSVG")
  /\ Len(invocations) < Len(srcs)
  /\ export_with("cairosvg", cairosvg_args(srcs[Len(invocations) + 1]))
  /\ UNCHANGED << inputs, err, run, idx, files, names, disk, prevDisk, exportCalls >>

\* export_with_svg2pdf: one iteration of its loop.
ExportSVG2PDF ==
  /\ Exporting("SVG2PDF")
  /\ Len(invocations) < Len(srcs)
  /\ export_with("svg2pdf", svg2pdf_args(srcs[Len(invocations) + 1]))
  /\ UNCHANGED << inputs, err, run, idx, files, names, disk, prevDisk, exportCalls >>

\* The export function has run all its commands.
ExportFinished ==
  IF exportCalls[Len(exportCalls)].exporter = "Inkscape"
  THEN Len(invocations) = 1
  ELSE Len(invocations) = Len(srcs)

\* The export function returns and render returns Ok(()).
ExportReturn ==
  /\ pc = "export"
  /\ ExportFinished
  /\ pc' = "done"
  /\ UNCHANGED << inputs, err, run, idx, files, names, disk, prevDisk,
                  exportCalls, invocations, exitFailure >>

\* render is called again with the same arguments, the same template and CSV
\* file and the output directory as the previous run left it.
Rerun ==
  /\ pc = "done"
  /\ run < MaxRuns
  /\ run' = run + 1
  /\ prevDisk' = disk
  /\ pc' = "start"
  /\ idx' = 0
  /\ files' = << >>
  /\ names' = << >>
  /\ exportCalls' = << >>
  /\ invocations' = << >>
  /\ exitFailure' = FALSE
  /\ UNCHANGED << inputs, err, disk >>

Next ==
  \/ SetupOk
  \/ SetupFail
  \/ RecordInvalid
  \/ NamePanic
  \/ RenderFail
  \/ WriteFail
  \/ WriteRecord
  \/ ReturnNoExport
  \/ CallExport
  \/ ExportInkscape
  \/ ExportCairoSVG
  \/ ExportSVG2PDF
  \/ ExportReturn
  \/ Rerun

Spec == Init /\ [][Next]_vars

\* ------------------------------------------------- the naming policy, stated
\* The whitespace characters of the inputs.
IsWhitespace(c) == c \in { " ", "\t", "\n", "\r" }

\* A field value as the naming policy cleans it: whitespace to '_', lowercased.
CleanValue(v) ==
  to_lowercase([i \in 1..Len(v) |-> IF IsWhitespace(v[i]) THEN "_" ELSE v[i]])

FieldsGiven == IsSome(field_based_name) /\ Len(Unwrap(field_based_name)) > 0

\* The base name the naming policy gives a row: the cleaned values of the
\* policy's fields joined by the separator as it is, or the lowercased value
\* of the first column when the policy has no fields.
PolicyName(row) ==
  IF FieldsGiven
  THEN LET fields == Unwrap(field_based_name)
       IN  join([i \in 1..Len(fields) |-> CleanValue(Record(row)[fields[i]])], sep)
  ELSE to_lowercase(row[1])

\* The rows the loop has named so far in this run.
Named == 1..Len(names)

\* The paths of the files on disk.
DiskPaths == { f.path : f \in disk }

\* C2: with a non-empty field list, the name of every record is its values in
\* policy order, each with whitespace replaced by '_' and lowercased, joined
\* by the separator, which is left as it is.
C2_NameFromFields ==
  FieldsGiven => \A i \in Named : names[i] = PolicyName(rows[i])

\* C3: with no field list, or an empty one, the name of every record is the
\* lowercased value of the first column of its row.
C3_NameFromFirstColumn ==
  ~FieldsGiven => \A i \in Named : names[i] = to_lowercase(rows[i][1])

\* C1: a run without exporter that returns Ok over N rows whose policy names
\* differ leaves exactly N files, the file of each row named by the naming
\* policy, and files lists them in row order.
C1_OneFilePerRow ==
  ( /\ pc = "done"
    /\ run = 1
    /\ ~IsSome(exporter)
    /\ \A i, j \in 1..Len(rows) : i # j => PolicyName(rows[i]) # PolicyName(rows[j]) )
  => /\ Len(files) = Len(rows)
     /\ \A i \in 1..Len(rows) : files[i] = output_file(PolicyName(rows[i]))
     /\ DiskPaths = { files[i] : i \in 1..Len(files) }
     /\ Cardinality(DiskPaths) = Len(rows)

\* The run has stopped at a record that lacks a field of the naming policy.
StoppedAtMissingField ==
  /\ pc \in { "err", "panic" }
  /\ idx \in 1..Len(rows)
  /\ RowIsValid(rows[idx])
  /\ NamingPanics(Record(rows[idx]))

\* C4: a run that comes to a record lacking a field of the naming policy
\* returns a MissingFieldError as an error value, having written the files of
\* the earlier records and no other.
C4_MissingFieldIsError ==
  StoppedAtMissingField =>
    /\ pc = "err"
    /\ err = "MissingFieldError"
    /\ Len(files) = idx - 1

\* C6: when a converter could not be started or exited with a non-zero status,
\* the run does not go on to return Ok and does not panic: it returns an
\* ExportProcessError.
C6_ExportFailureIsError ==
  ( /\ pc \in { "done", "err", "panic" }
    /\ Len(invocations) > 0
    /\ (pc = "panic" \/ exitFailure) )
  => pc = "err" /\ err = "ExportProcessError"

\* C8: a second run with the same inputs that returns Ok leaves the disk as
\* the first run left it: the same files with the same contents.
C8_RerunIdempotent ==
  (run >= 2 /\ pc = "done") => disk = prevDisk

\* The template refers only to fields the record has.
RefsPresent(record) ==
  \A i \in 1..Len(svg_template.source) :
    svg_template.source[i].kind = "ref" => svg_template.source[i].name \in DOMAIN record

EmptyStem(path) == Len(path) = 4 \/ path[Len(path) - 4] = "/"

\* A path without its last four characters, the ".svg" of an artifact.
StripSvg(path) == SubSeq(path, 1, Len(path) - 4)

CairoSVGRun == exporter = Some("CairoSVG")

\* C7 as stated: export_with_cairosvg runs one command per artifact, in list
\* order, with input X.svg and output X.pdf.
C7_XSvgToXPdf ==
  CairoSVGRun =>
    /\ Len(invocations) <= Len(files)
    /\ pc = "done" => Len(invocations) = Len(files)
    /\ \A i \in 1..Len(invocations) :
         /\ invocations[i].program = "cairosvg"
         /\ invocations[i].args =
              << FlagF, Pdf, FlagO, StripSvg(files[i]) \o Dot \o Pdf, files[i] >>

\* C7 amended: export_with_cairosvg runs one command per artifact, in list
\* order, with the artifact's path as input and as output X.pdf for X.svg,
\* but the path with .pdf added when the file name is just ".svg".
C7_OutputPerArtifact ==
  CairoSVGRun =>
    /\ Len(invocations) <= Len(files)
    /\ pc = "done" => Len(invocations) = Len(files)
    /\ \A i \in 1..Len(invocations) :
         /\ invocations[i].program = "cairosvg"
         /\ invocations[i].args =
              << FlagF, Pdf, FlagO,
                 IF EmptyStem(files[i]) THEN files[i] \o Dot \o Pdf
                 ELSE StripSvg(files[i]) \o Dot \o Pdf,
                 files[i] >>

\* export_with_cairosvg has returned after two commands for two files.
C7_Witness ==
  /\ CairoSVGRun
  /\ pc = "done"
  /\ Len(invocations) = 2
  /\ files[1] # files[2]

\* C9: the export function is called at most once in a run, only with an
\* exporter, only after every row has been named, rendered and written, with
\* all the files in row order; no command runs outside that call, and a run
\* stopped at a record calls nothing.
C9_ExportOnceAfterLoop ==
  /\ Len(exportCalls) <= 1
  /\ Len(exportCalls) = 1 =>
       /\ IsSome(exporter)
       /\ exportCalls[1].exporter = Unwrap(exporter)
       /\ pc \in { "export", "done", "panic" }
       /\ err = "none"
       /\ Len(names) = Len(rows)
       /\ Len(files) = Len(rows)
       /\ exportCalls[1].srcs = files
       /\ \A i \in 1..Len(rows) :
            /\ RowIsValid(rows[i])
            /\ names[i] \in ItemNames(Record(rows[i]))
            /\ \E f \in disk : f.path = files[i]
  /\ Len(exportCalls) = 0 => Len(invocations) = 0
  /\ pc = "err" => Len(exportCalls) = 0
  /\ (pc = "done" /\ ~IsSome(exporter)) => Len(exportCalls) = 0
  /\ (pc = "done" /\ IsSome(exporter)) => Len(exportCalls) = 1

\* A run with two rows has called its exporter and returned.
C9_Witness ==
  /\ pc = "done"
  /\ Len(exportCalls) = 1
  /\ Len(exportCalls[1].srcs) = 2

\* C10 as stated: the file of every record is output_dir/<name>.<extension of
\* the template>.
C10_TemplateExtension ==
  \A i \in 1..Len(files) :
    files[i] = path_join(output_dir, names[i] \o Dot \o extension_of(svg_template.path))

\* The last row of this run written to the path of row i.
LastWriter(i) ==
  CHOOSE j \in 1..Len(files) :
    files[j] = files[i] /\ \A m \in (j + 1)..Len(files) : files[m] # files[i]

\* C10 amended: the file of every record is <name>.svg joined to output_dir
\* (in output_dir unless the name begins with '/'), whatever the template's
\* extension; the disk holds one file of that path and, as long as no write
\* has failed, its content is the text rendered for the last record written
\* to it.
C10_SvgInOutputDir ==
  /\ \A i \in 1..Len(files) :
       /\ files[i] = IF Len(names[i]) > 0 /\ names[i][1] = "/"
                     THEN names[i] \o DotSvg
                     ELSE output_dir \o << "/" >> \o names[i] \o DotSvg
       /\ \E f \in disk : f.path = files[i]
       /\ err # "IOError" =>
            [path |-> files[i], content |-> tmpl_render(Record(rows[LastWriter(i)])).text] \in disk
  /\ \A f, g \in disk : f.path = g.path => f = g

\* With a template that is not an .svg file, the second record has replaced
\* the file of the first.
C10_Witness ==
  /\ svg_template.path = CardHtml
  /\ Len(files) = 2
  /\ files[1] = files[2]
  /\ rows[1] # rows[2]
  /\ \E f \in disk : f.path = files[1] /\ f.content = tmpl_render(Record(rows[2])).text

====
